---- MODULE Spec2Model ----
(***************************************************************************)
(* Model of Modulos/requisicoes.py: class Requisicoes, a GET wrapper with  *)
(* query-parameter assembly, authentication headers, proxy, bounded        *)
(* retries and a class-level response cache.                               *)
(*                                                                         *)
(* Text is modelled as a sequence of one-character strings, bytes as a     *)
(* sequence whose ASCII bytes are the characters themselves and whose      *)
(* other bytes are the tokens "xC3", "xA9", "xFF".                         *)
(***************************************************************************)
EXTENDS Integers, Sequences, FiniteSets, TLC

(***************************************************************************)
(* Bounds of the model.                                                    *)
(***************************************************************************)
MaxRetries == 2

(***************************************************************************)
(* Text helpers.                                                           *)
(***************************************************************************)
Digitos == <<"0", "1", "2", "3", "4", "5", "6", "7", "8", "9">>

RECURSIVE IntToStr(_)
\* str(n) of a non-negative int, as the f-string renders e.code
IntToStr(n) ==
    IF n < 10 THEN <<Digitos[n + 1]>>
    ELSE IntToStr(n \div 10) \o <<Digitos[(n % 10) + 1]>>

Contem(s, c) == \E i \in 1..Len(s) : s[i] = c

StartsWith(s, p) == Len(s) >= Len(p) /\ SubSeq(s, 1, Len(p)) = p

EndsWith(s, p) == Len(s) >= Len(p) /\ SubSeq(s, Len(s) - Len(p) + 1, Len(s)) = p

RECURSIVE Espacos(_)
Espacos(n) == IF n = 0 THEN <<>> ELSE <<" ">> \o Espacos(n - 1)

(***************************************************************************)
(* bytes.decode('utf-8') on the byte alphabet of the model: ASCII bytes    *)
(* decode to themselves, the pair C3 A9 decodes to "é", any other use of a *)
(* non-ASCII byte raises UnicodeDecodeError.                               *)
(***************************************************************************)
NaoAscii == {"xC3", "xA9", "xFF"}

RECURSIVE Utf8Valido(_)
Utf8Valido(b) ==
    IF b = <<>> THEN TRUE
    ELSE IF Head(b) \notin NaoAscii THEN Utf8Valido(Tail(b))
    ELSE IF Head(b) = "xC3" /\ Len(b) >= 2 /\ b[2] = "xA9"
         THEN Utf8Valido(Tail(Tail(b)))
    ELSE FALSE

RECURSIVE Utf8Decode(_)
Utf8Decode(b) ==
    IF b = <<>> THEN <<>>
    ELSE IF Head(b) \notin NaoAscii THEN <<Head(b)>> \o Utf8Decode(Tail(b))
    ELSE <<"é">> \o Utf8Decode(Tail(Tail(b)))

(***************************************************************************)
(* json.loads / json.dumps(indent=4, ensure_ascii=False) on the fragment   *)
(* of JSON the model's bodies are written in: objects, arrays, strings     *)
(* without escapes, non-negative integers, true/false/null, whitespace.    *)
(* A parsed value is [t, txt, itens]: t is "atom" (integer or literal,     *)
(* txt its text), "str" (txt its characters), "arr" (itens its elements)   *)
(* or "obj" (itens its <<key, value>> pairs in dict order).                *)
(***************************************************************************)
Ws == {" ", "\n", "\t", "\r"}

DigitSet == {"0", "1", "2", "3", "4", "5", "6", "7", "8", "9"}

Nulo == [t |-> "atom", txt |-> <<>>, itens |-> <<>>]

Falha == [ok |-> FALSE, v |-> Nulo, i |-> 0]

Sucesso(v, i) == [ok |-> TRUE, v |-> v, i |-> i]

RECURSIVE SkipWs(_, _)
SkipWs(s, i) == IF i <= Len(s) /\ s[i] \in Ws THEN SkipWs(s, i + 1) ELSE i

RECURSIVE ScanStr(_, _)
\* index of the closing quote of a string whose first character is at i,
\* 0 when the string is unterminated or holds an escape or a control char
ScanStr(s, i) ==
    IF i > Len(s) THEN 0
    ELSE IF s[i] = "\"" THEN i
    ELSE IF s[i] \in {"\\", "\n", "\t", "\r"} THEN 0
    ELSE ScanStr(s, i + 1)

RECURSIVE ScanDigits(_, _)
ScanDigits(s, i) ==
    IF i <= Len(s) /\ s[i] \in DigitSet THEN ScanDigits(s, i + 1) ELSE i

Literais == {<<"t", "r", "u", "e">>, <<"f", "a", "l", "s", "e">>, <<"n", "u", "l", "l">>}

ParseString(s, i) ==
    LET j == ScanStr(s, i + 1)
    IN  IF j = 0 THEN Falha
        ELSE Sucesso([t |-> "str", txt |-> SubSeq(s, i + 1, j - 1), itens |-> <<>>], j + 1)

ParseAtom(s, i) ==
    IF s[i] = "0"
    THEN Sucesso([t |-> "atom", txt |-> <<"0">>, itens |-> <<>>], i + 1)
    ELSE IF s[i] \in DigitSet
    THEN LET j == ScanDigits(s, i)
         IN  Sucesso([t |-> "atom", txt |-> SubSeq(s, i, j - 1), itens |-> <<>>], j)
    ELSE IF \E l \in Literais : StartsWith(SubSeq(s, i, Len(s)), l)
    THEN LET l == CHOOSE l \in Literais : StartsWith(SubSeq(s, i, Len(s)), l)
         IN  Sucesso([t |-> "atom", txt |-> l, itens |-> <<>>], i + Len(l))
    ELSE Falha

\* d[k] = v on a dict kept as a sequence of pairs in insertion order
DictSet(d, k, v) ==
    IF \E n \in 1..Len(d) : d[n][1] = k
    THEN [n \in 1..Len(d) |-> IF d[n][1] = k THEN <<k, v>> ELSE d[n]]
    ELSE Append(d, <<k, v>>)

RECURSIVE ParseValue(_, _)
RECURSIVE ParseItens(_, _, _)
RECURSIVE ParseMembros(_, _, _)

\* the elements of an array from position i to its closing bracket
ParseItens(s, i, acc) ==
    LET r == ParseValue(s, SkipWs(s, i))
        j == SkipWs(s, r.i)
    IN  IF ~r.ok \/ j > Len(s) THEN Falha
        ELSE IF s[j] = "," THEN ParseItens(s, j + 1, Append(acc, r.v))
        ELSE IF s[j] = "]"
             THEN Sucesso([t |-> "arr", txt |-> <<>>, itens |-> Append(acc, r.v)], j + 1)
        ELSE Falha

\* the members of an object from position i to its closing brace
ParseMembros(s, i, acc) ==
    LET k == SkipWs(s, i)
    IN  IF k > Len(s) \/ s[k] # "\"" THEN Falha
        ELSE LET rk == ParseString(s, k)
                 c  == SkipWs(s, rk.i)
             IN  IF ~rk.ok \/ c > Len(s) \/ s[c] # ":" THEN Falha
                 ELSE LET rv == ParseValue(s, SkipWs(s, c + 1))
                          j  == SkipWs(s, rv.i)
                          d  == DictSet(acc, rk.v.txt, rv.v)
                      IN  IF ~rv.ok \/ j > Len(s) THEN Falha
                          ELSE IF s[j] = "," THEN ParseMembros(s, j + 1, d)
                          ELSE IF s[j] = "}"
                               THEN Sucesso([t |-> "obj", txt |-> <<>>, itens |-> d], j + 1)
                          ELSE Falha

ParseValue(s, i) ==
    IF i > Len(s) THEN Falha
    ELSE IF s[i] = "\"" THEN ParseString(s, i)
    ELSE IF s[i] = "["
         THEN LET j == SkipWs(s, i + 1)
              IN  IF j <= Len(s) /\ s[j] = "]"
                  THEN Sucesso([t |-> "arr", txt |-> <<>>, itens |-> <<>>], j + 1)
                  ELSE ParseItens(s, i + 1, <<>>)
    ELSE IF s[i] = "{"
         THEN LET j == SkipWs(s, i + 1)
              IN  IF j <= Len(s) /\ s[j] = "}"
                  THEN Sucesso([t |-> "obj", txt |-> <<>>, itens |-> <<>>], j + 1)
                  ELSE ParseMembros(s, i + 1, <<>>)
    ELSE ParseAtom(s, i)

\* json.loads(s): the whole text is one value between optional whitespace
JsonLoads(s) ==
    LET r == ParseValue(s, SkipWs(s, 1))
    IN  IF r.ok /\ SkipWs(s, r.i) = Len(s) + 1 THEN r ELSE Falha

RECURSIVE JsonDumps(_, _)
RECURSIVE DumpItens(_, _, _, _)

\* the elements n.. of a container, each on its own line at depth nivel
DumpItens(itens, n, nivel, chave) ==
    LET e    == itens[n]
        item == IF chave
                THEN <<"\"">> \o e[1] \o <<"\"", ":", " ">> \o JsonDumps(e[2], nivel)
                ELSE JsonDumps(e, nivel)
        sep  == IF n < Len(itens) THEN <<",">> ELSE <<>>
    IN  <<"\n">> \o Espacos(4 * nivel) \o item \o sep
        \o (IF n < Len(itens) THEN DumpItens(itens, n + 1, nivel, chave) ELSE <<>>)

\* json.dumps(v, indent=4, ensure_ascii=False) of a value nested at depth nivel
JsonDumps(v, nivel) ==
    IF v.t = "atom" THEN v.txt
    ELSE IF v.t = "str" THEN <<"\"">> \o v.txt \o <<"\"">>
    ELSE IF v.itens = <<>> THEN (IF v.t = "arr" THEN <<"[", "]">> ELSE <<"{", "}">>)
    ELSE (IF v.t = "arr" THEN <<"[">> ELSE <<"{">>)
         \o DumpItens(v.itens, 1, nivel + 1, v.t = "obj")
         \o <<"\n">> \o Espacos(4 * nivel)
         \o (IF v.t = "arr" THEN <<"]">> ELSE <<"}">>)

\* variant: the response is returned as it arrived
_formatar_resposta_Bruta(resposta) == resposta

\* Requisicoes._formatar_resposta
_formatar_resposta(resposta) ==
    LET dados == JsonLoads(resposta)
    IN  IF dados.ok THEN JsonDumps(dados.v, 0) ELSE resposta

(***************************************************************************)
(* urllib.parse.urlencode on a dict of str, kept as a sequence of          *)
(* <<key, value>> pairs in dict order: quote_plus of each key and value,   *)
(* "=" between them, "&" between pairs.  quote_plus leaves letters, digits *)
(* and _ . - ~ alone, turns a space into "+", and percent-encodes the      *)
(* UTF-8 bytes of anything else.                                           *)
(***************************************************************************)
PercentTab ==
    [c \in {"&", "=", "?", "+", "/", ":", "é"} |->
        CASE c = "&" -> <<"%", "2", "6">>
          [] c = "=" -> <<"%", "3", "D">>
          [] c = "?" -> <<"%", "3", "F">>
          [] c = "+" -> <<"%", "2", "B">>
          [] c = "/" -> <<"%", "2", "F">>
          [] c = ":" -> <<"%", "3", "A">>
          [] c = "é" -> <<"%", "C", "3", "%", "A", "9">>]

RECURSIVE quote_plus(_)
quote_plus(s) ==
    IF s = <<>> THEN <<>>
    ELSE (IF Head(s) = " " THEN <<"+">>
          ELSE IF Head(s) \in DOMAIN PercentTab THEN PercentTab[Head(s)]
          ELSE <<Head(s)>>) \o quote_plus(Tail(s))

\* the items of params with the names in the order of Alfabeto
Alfabeto == <<"a", "b", "q">>

Posicao(nome) == CHOOSE i \in 1..Len(Alfabeto) : Alfabeto[i] = nome[1]

RECURSIVE Ordenada(_)
Ordenada(params) ==
    IF params = <<>> THEN <<>>
    ELSE LET i == CHOOSE i \in 1..Len(params) :
                      \A j \in 1..Len(params) : Posicao(params[i][1]) <= Posicao(params[j][1])
         IN  <<params[i]>> \o Ordenada(SubSeq(params, 1, i - 1) \o SubSeq(params, i + 1, Len(params)))

RECURSIVE urlencode_Itens(_)
urlencode_Itens(params) ==
    IF params = <<>> THEN <<>>
    ELSE quote_plus(params[1][1]) \o <<"=">> \o quote_plus(params[1][2])
         \o (IF Len(params) > 1 THEN <<"&">> \o urlencode_Itens(Tail(params)) ELSE <<>>)

\* variant: the items are encoded in the order of their names
urlencode_Ordenada(params) == urlencode_Itens(Ordenada(params))

RECURSIVE urlencode(_)
urlencode(params) ==
    IF params = <<>> THEN <<>>
    ELSE quote_plus(params[1][1]) \o <<"=">> \o quote_plus(params[1][2])
         \o (IF Len(params) > 1 THEN <<"&">> \o urlencode(Tail(params)) ELSE <<>>)

\* variant: the query is always appended with "?"
_montar_url_com_params_SempreInterrogacao(url, params) ==
    IF params # <<>>
    THEN url \o <<"?">> \o urlencode(params)
    ELSE url

\* Requisicoes._montar_url_com_params
_montar_url_com_params(url, params) ==
    IF params # <<>>
    THEN LET query_string == urlencode(params)
         IN  IF Contem(url, "?")
             THEN url \o <<"&">> \o query_string
             ELSE url \o <<"?">> \o query_string
    ELSE url

(***************************************************************************)
(* base64.b64encode(text.encode()).decode('utf-8')                         *)
(***************************************************************************)
\* the printable ASCII characters 32..95 and 97..126, in code order
AsciiTab ==
    <<" ", "!", "\"", "#", "$", "%", "&", "'", "(", ")", "*", "+", ",", "-", ".", "/",
      "0", "1", "2", "3", "4", "5", "6", "7", "8", "9", ":", ";", "<", "=", ">", "?",
      "@", "A", "B", "C", "D", "E", "F", "G", "H", "I", "J", "K", "L", "M", "N", "O",
      "P", "Q", "R", "S", "T", "U", "V", "W", "X", "Y", "Z", "[", "\\", "]", "^", "_",
      "a", "b", "c", "d", "e", "f", "g", "h", "i", "j", "k", "l", "m", "n", "o",
      "p", "q", "r", "s", "t", "u", "v", "w", "x", "y", "z", "{", "|", "}", "~">>

B64Tab ==
    <<"A", "B", "C", "D", "E", "F", "G", "H", "I", "J", "K", "L", "M", "N", "O", "P",
      "Q", "R", "S", "T", "U", "V", "W", "X", "Y", "Z", "a", "b", "c", "d", "e", "f",
      "g", "h", "i", "j", "k", "l", "m", "n", "o", "p", "q", "r", "s", "t", "u", "v",
      "w", "x", "y", "z", "0", "1", "2", "3", "4", "5", "6", "7", "8", "9", "+", "/">>

RECURSIVE Utf8Encode(_)
\* str.encode(): the byte values of a text
Utf8Encode(s) ==
    IF s = <<>> THEN <<>>
    ELSE (IF Head(s) = "é" THEN <<195, 169>>
          ELSE LET i == CHOOSE i \in 1..Len(AsciiTab) : AsciiTab[i] = Head(s)
               IN  <<IF i <= 64 THEN 31 + i ELSE 32 + i>>)
         \o Utf8Encode(Tail(s))

RECURSIVE b64encode(_)
b64encode(b) ==
    IF b = <<>> THEN <<>>
    ELSE IF Len(b) = 1
    THEN <<B64Tab[(b[1] \div 4) + 1], B64Tab[((b[1] % 4) * 16) + 1], "=", "=">>
    ELSE IF Len(b) = 2
    THEN <<B64Tab[(b[1] \div 4) + 1],
           B64Tab[((b[1] % 4) * 16 + (b[2] \div 16)) + 1],
           B64Tab[((b[2] % 16) * 4) + 1], "=">>
    ELSE <<B64Tab[(b[1] \div 4) + 1],
           B64Tab[((b[1] % 4) * 16 + (b[2] \div 16)) + 1],
           B64Tab[((b[2] % 16) * 4 + (b[3] \div 64)) + 1],
           B64Tab[(b[3] % 64) + 1]>>
         \o b64encode(SubSeq(b, 4, Len(b)))

(***************************************************************************)
(* Python dicts with identifier keys are functions on strings.             *)
(***************************************************************************)
DictVazio == [k \in {} |-> <<>>]

Dict1(k, v) == [x \in {k} |-> v]

\* variant: a.setdefault for each item of b, the entries of a kept
DictUpdate_SemSubstituir(a, b) ==
    [k \in DOMAIN a \cup DOMAIN b |-> IF k \in DOMAIN a THEN a[k] ELSE b[k]]

\* a.update(b), as the new content of a
DictUpdate(a, b) ==
    [k \in DOMAIN a \cup DOMAIN b |-> IF k \in DOMAIN b THEN b[k] ELSE a[k]]

\* variant: the Basic form tried before the Bearer form
_adicionar_autenticacao_BasicPrimeiro(auth) ==
    IF "username" \in DOMAIN auth /\ "password" \in DOMAIN auth
    THEN LET base64_credentials ==
                 b64encode(Utf8Encode(auth["username"] \o <<":">> \o auth["password"]))
         IN  Dict1("Authorization", <<"B", "a", "s", "i", "c", " ">> \o base64_credentials)
    ELSE IF "token" \in DOMAIN auth
    THEN Dict1("Authorization", <<"B", "e", "a", "r", "e", "r", " ">> \o auth["token"])
    ELSE DictVazio

\* Requisicoes._adicionar_autenticacao
_adicionar_autenticacao(auth) ==
    IF "token" \in DOMAIN auth
    THEN Dict1("Authorization", <<"B", "e", "a", "r", "e", "r", " ">> \o auth["token"])
    ELSE IF "username" \in DOMAIN auth /\ "password" \in DOMAIN auth
    THEN LET base64_credentials ==
                 b64encode(Utf8Encode(auth["username"] \o <<":">> \o auth["password"]))
         IN  Dict1("Authorization", <<"B", "a", "s", "i", "c", " ">> \o base64_credentials)
    ELSE DictVazio

(***************************************************************************)
(* Inputs of fazer_get and outcomes of one opener.open(...).read().        *)
(***************************************************************************)
Threads == {1, 2}

Principal == 1

\* (url, params) as passed; params is None or {} (both falsy, <<>>) or a dict
\* of str.  The second and third assemble to the same text.
UrlParamsArgs ==
    {[url |-> <<"h">>, params |-> <<>>],
     [url |-> <<"h">>, params |-> << <<<<"k">>, <<"v">>>> >>],
     [url |-> <<"h", "?", "k", "=", "v">>, params |-> <<>>]}

\* (headers, auth, proxy) as passed.  headers is None or the dict object the
\* caller owns (mapa); auth and proxy are None or {} (both falsy, DictVazio)
\* or a dict.
ExtrasArgs ==
    {[headers |-> "None", auth |-> DictVazio, proxy |-> DictVazio],
     [headers |-> "None", auth |-> [username |-> <<"u">>, password |-> <<"p">>],
      proxy |-> [http |-> <<"p">>]],
     [headers |-> "mapa", auth |-> [token |-> <<"t">>], proxy |-> [http |-> <<"p">>]],
     [headers |-> "mapa", auth |-> [username |-> <<"u">>], proxy |-> DictVazio]}

RetriesArgs == (0 - 1)..MaxRetries

\* response bodies as bytes: a JSON document, plain text, invalid UTF-8
Corpos ==
    {<<"{", "\"", "a", "\"", ":", "1", "}">>,
     <<"o", "k">>,
     <<"xFF">>}

Resposta(b) == [tipo |-> "ok", code |-> 200, reason |-> <<>>, corpo |-> b]

\* exceptions opener.open / resposta.read can raise
Excecoes ==
    {[tipo |-> "HTTPError", code |-> 404, corpo |-> <<>>,
      reason |-> <<"N", "o", "t", " ", "F", "o", "u", "n", "d">>],
     [tipo |-> "URLError", code |-> 0, corpo |-> <<>>,
      reason |-> <<"t", "i", "m", "e", "d", " ", "o", "u", "t">>],
     [tipo |-> "TimeoutError", code |-> 0, corpo |-> <<>>,
      reason |-> <<>>]}

Nenhum == [tipo |-> "", code |-> 0, reason |-> <<>>, corpo |-> <<>>]

\* class HTTPError(URLError, addinfourl) in urllib.error
Subclasses == {<<"HTTPError", "URLError">>}

isinstance(e, cls) == e.tipo = cls \/ <<e.tipo, cls>> \in Subclasses

\* except (urllib.error.HTTPError, urllib.error.URLError) as e
Capturada(e) == isinstance(e, "HTTPError") \/ isinstance(e, "URLError")

\* the f-strings of line 69
erro_msg(e) ==
    IF isinstance(e, "URLError")
    THEN <<"E", "r", "r", "o", ":", " ">> \o e.reason
    ELSE <<"E", "r", "r", "o", " ", "H", "T", "T", "P", ":", " ">> \o IntToStr(e.code) \o <<" ", "-", " ">> \o e.reason

\* the literal of the return after the loop
MsgMaximo ==
    <<"E", "r", "r", "o", ":", " ", "N", "ú", "m", "e", "r", "o",
      " ", "m", "á", "x", "i", "m", "o", " ", "d", "e", " ", "t",
      "e", "n", "t", "a", "t", "i", "v", "a", "s", " ", "a", "t",
      "i", "n", "g", "i", "d", "o", ".">>

\* time.sleep(2)
Espera == 2

\* variant: the flag inverted
CacheHit_FlagInvertida(use_cache, url, c) == ~use_cache /\ url \in DOMAIN c

\* variant: the flag ignored
CacheHit_SemFlag(use_cache, url, c) == url \in DOMAIN c

\* if use_cache and url in Requisicoes.cache
CacheHit(use_cache, url, c) == use_cache /\ url \in DOMAIN c

\* variant: the loop entered once more, while tentativa <= retries
LoopCond_Inclusiva(tentativa, retries) == tentativa <= retries

\* while tentativa < retries
LoopCond(tentativa, retries) == tentativa < retries

\* variant: the last iteration taken to be the one after the loop's last
UltimaTentativa_Seguinte(tentativa, retries) == tentativa = retries

\* if tentativa == retries - 1
UltimaTentativa(tentativa, retries) == tentativa = retries - 1

\* variant: the store left out
CacheSet_SemEscrita(c, url, v) == c

\* variant: the store made only when the url is not yet a key
CacheSet_SeAusente(c, url, v) ==
    IF url \in DOMAIN c THEN c ELSE [u \in DOMAIN c \cup {url} |-> IF u = url THEN v ELSE c[u]]

\* Requisicoes.cache[url] = resposta_formatada
CacheSet(c, url, v) == [u \in DOMAIN c \cup {url} |-> IF u = url THEN v ELSE c[u]]

(***************************************************************************)
(* State.                                                                  *)
(*   cache      Requisicoes.cache, the class-level dict url -> text        *)
(*   mapa       the content of the dict object a caller passes as headers  *)
(*   pc         where each caller is: "idle", "loop" (at the while test),  *)
(*              "sleep" (in time.sleep), "done" (returned), "raised" (an   *)
(*              exception left fazer_get)                                  *)
(*   loc        the arguments and locals of each caller's current call     *)
(*   res        how the call ended: ret the returned text, exc the class   *)
(*              of the escaped exception, via the return statement taken   *)
(*              ("cache" l.36, "ok" l.65, "erro" l.71, "fallback" l.76)    *)
(*   obs        observations of the call: attempts made, seconds slept,    *)
(*              outcome of the latest attempt, headers of the latest       *)
(*              request, the cache as it was when the call began, the      *)
(*              (url, params) the caller passed                            *)
(*   cacheadas  the urls stored so far by a call with use_cache = True     *)
(***************************************************************************)
VARIABLES cache, mapa, pc, loc, res, obs, cacheadas

vars == <<cache, mapa, pc, loc, res, obs, cacheadas>>

Rest == {"idle", "done", "raised"}

MapasIniciais == {Dict1("Authorization", <<"x">>)}

LocInicial ==
    [url |-> <<>>, headers |-> "None", novo |-> DictVazio, opener |-> "",
     tentativa |-> 0, retries |-> 0, use_cache |-> FALSE,
     auth |-> DictVazio, proxy |-> DictVazio]

ResInicial == [ret |-> <<>>, exc |-> "", via |-> ""]

SemChamada == [url |-> <<>>, params |-> <<>>]

ObsInicial(c) ==
    [attempts |-> 0, dormido |-> 0, ultimo |-> Nenhum, enviados |-> DictVazio,
     cache0 |-> c, chamada |-> SemChamada]

Init ==
    /\ cache = [u \in {} |-> <<>>]
    /\ mapa \in MapasIniciais
    /\ pc = [t \in Threads |-> "idle"]
    /\ loc = [t \in Threads |-> LocInicial]
    /\ res = [t \in Threads |-> ResInicial]
    /\ obs = [t \in Threads |-> ObsInicial(cache)]
    /\ cacheadas = {}

\* the content of the dict the local name headers refers to
HeadersDe(t) == IF loc[t].headers = "mapa" THEN mapa ELSE loc[t].novo

(***************************************************************************)
(* fazer_get, lines 30-55: from the call to the first test of the loop,    *)
(* with (url, params) drawn from U, (headers, auth, proxy) from E, retries *)
(* from R and use_cache from F.                                            *)
(***************************************************************************)
CallCom(t, U, E, R, F) ==
    /\ pc[t] \in Rest
    /\ \E up \in U, ex \in E, r \in R, uc \in F :
        LET u    == up.url
            p    == up.params
            h    == ex.headers
            a    == ex.auth
            px   == ex.proxy
            url1 == IF p # <<>> THEN _montar_url_com_params(u, p) ELSE u
            obj  == IF h = "None" THEN "novo" ELSE h
            upd  == IF DOMAIN a # {} THEN _adicionar_autenticacao(a) ELSE DictVazio
            base == [LocInicial EXCEPT !.url = url1, !.retries = r, !.use_cache = uc,
                                       !.auth = a, !.proxy = px, !.headers = h]
        IN  /\ obs' = [obs EXCEPT ![t] = [ObsInicial(cache) EXCEPT !.chamada = up]]
            /\ IF CacheHit(uc, url1, cache)
               THEN /\ pc' = [pc EXCEPT ![t] = "done"]
                    /\ loc' = [loc EXCEPT ![t] = base]
                    /\ res' = [res EXCEPT ![t] =
                                  [ret |-> cache[url1], exc |-> "", via |-> "cache"]]
                    /\ mapa' = mapa
               ELSE /\ pc' = [pc EXCEPT ![t] = "loop"]
                    /\ loc' = [loc EXCEPT ![t] =
                                  [base EXCEPT
                                     !.headers = obj,
                                     !.novo = IF obj = "novo" THEN upd ELSE DictVazio,
                                     !.opener = IF DOMAIN px # {} THEN "proxy"
                                                ELSE "direto"]]
                    /\ res' = [res EXCEPT ![t] = ResInicial]
                    /\ mapa' = IF obj = "mapa" THEN DictUpdate(mapa, upd) ELSE mapa
    /\ UNCHANGED <<cache, cacheadas>>

Call(t) == CallCom(t, UrlParamsArgs, ExtrasArgs, RetriesArgs, BOOLEAN)

(***************************************************************************)
(* One iteration of the loop, lines 56-74, by outcome of the request.      *)
(***************************************************************************)
Tentou(t, r) ==
    [obs[t] EXCEPT !.attempts = @ + 1, !.ultimo = r, !.enviados = HeadersDe(t)]

\* lines 58-65: the body, one of B, arrives and decodes
TentativaSucessoCom(t, B) ==
    /\ pc[t] = "loop"
    /\ LoopCond(loc[t].tentativa, loc[t].retries)
    /\ \E b \in B :
        /\ Utf8Valido(b)
        /\ LET dados == Utf8Decode(b)
               resposta_formatada == _formatar_resposta(dados)
           IN  /\ cache' = CacheSet(cache, loc[t].url, resposta_formatada)
               /\ res' = [res EXCEPT ![t] =
                             [ret |-> resposta_formatada, exc |-> "", via |-> "ok"]]
        /\ obs' = [obs EXCEPT ![t] = Tentou(t, Resposta(b))]
    /\ cacheadas' = IF loc[t].use_cache THEN cacheadas \cup {loc[t].url} ELSE cacheadas
    /\ pc' = [pc EXCEPT ![t] = "done"]
    /\ UNCHANGED <<mapa, loc>>

TentativaSucesso(t) == TentativaSucessoCom(t, Corpos)

\* variant: the message of the final failure is stored in the cache as well
TentativaErro_Cacheia(t) ==
    /\ pc[t] = "loop"
    /\ LoopCond(loc[t].tentativa, loc[t].retries)
    /\ \E e \in Excecoes :
        /\ Capturada(e)
        /\ obs' = [obs EXCEPT ![t] = Tentou(t, e)]
        /\ IF UltimaTentativa(loc[t].tentativa, loc[t].retries)
           THEN /\ res' = [res EXCEPT ![t] =
                              [ret |-> erro_msg(e), exc |-> "", via |-> "erro"]]
                /\ pc' = [pc EXCEPT ![t] = "done"]
                /\ loc' = loc
                /\ cache' = CacheSet(cache, loc[t].url, erro_msg(e))
           ELSE /\ loc' = [loc EXCEPT ![t].tentativa = @ + 1]
                /\ pc' = [pc EXCEPT ![t] = "sleep"]
                /\ res' = res
                /\ cache' = cache
    /\ UNCHANGED <<mapa, cacheadas>>

\* lines 67-74: the request raises an exception the except clause names
TentativaErro(t) ==
    /\ pc[t] = "loop"
    /\ LoopCond(loc[t].tentativa, loc[t].retries)
    /\ \E e \in Excecoes :
        /\ Capturada(e)
        /\ obs' = [obs EXCEPT ![t] = Tentou(t, e)]
        /\ IF UltimaTentativa(loc[t].tentativa, loc[t].retries)
           THEN /\ res' = [res EXCEPT ![t] =
                              [ret |-> erro_msg(e), exc |-> "", via |-> "erro"]]
                /\ pc' = [pc EXCEPT ![t] = "done"]
                /\ loc' = loc
           ELSE /\ loc' = [loc EXCEPT ![t].tentativa = @ + 1]
                /\ pc' = [pc EXCEPT ![t] = "sleep"]
                /\ res' = res
    /\ UNCHANGED <<cache, mapa, cacheadas>>

\* line 74: time.sleep(2) returns
Sleep(t) ==
    /\ pc[t] = "sleep"
    /\ obs' = [obs EXCEPT ![t].dormido = @ + Espera]
    /\ pc' = [pc EXCEPT ![t] = "loop"]
    /\ UNCHANGED <<cache, mapa, loc, res, cacheadas>>

\* lines 58-60: an exception the except clause does not name leaves the call:
\* one raised by the request or the read, or UnicodeDecodeError from decode
TentativaExcecao(t) ==
    /\ pc[t] = "loop"
    /\ LoopCond(loc[t].tentativa, loc[t].retries)
    /\ \/ \E e \in Excecoes :
            /\ ~Capturada(e)
            /\ obs' = [obs EXCEPT ![t] = Tentou(t, e)]
            /\ res' = [res EXCEPT ![t] = [ret |-> <<>>, exc |-> e.tipo, via |-> ""]]
       \/ \E b \in Corpos :
            /\ ~Utf8Valido(b)
            /\ obs' = [obs EXCEPT ![t] = Tentou(t, Resposta(b))]
            /\ res' = [res EXCEPT ![t] =
                          [ret |-> <<>>, exc |-> "UnicodeDecodeError", via |-> ""]]
    /\ pc' = [pc EXCEPT ![t] = "raised"]
    /\ UNCHANGED <<cache, mapa, loc, cacheadas>>

\* line 76: the loop test fails
SaidaLoop(t) ==
    /\ pc[t] = "loop"
    /\ ~LoopCond(loc[t].tentativa, loc[t].retries)
    /\ res' = [res EXCEPT ![t] = [ret |-> MsgMaximo, exc |-> "", via |-> "fallback"]]
    /\ pc' = [pc EXCEPT ![t] = "done"]
    /\ UNCHANGED <<cache, mapa, loc, obs, cacheadas>>

(***************************************************************************)
(* The program as the spec describes its use: one caller, one call at a    *)
(* time.                                                                   *)
(***************************************************************************)
Next ==
    \/ Call(Principal)
    \/ TentativaSucesso(Principal)
    \/ TentativaErro(Principal)
    \/ Sleep(Principal)
    \/ TentativaExcecao(Principal)
    \/ SaidaLoop(Principal)

Spec == Init /\ [][Next]_vars

(***************************************************************************)
(* Properties.                                                             *)
(***************************************************************************)
Frame(t) == <<pc[t], loc[t], res[t], obs[t]>>

\* the step is caller t entering fazer_get
CallStep(t) == pc[t] \in Rest /\ Frame(t)' # Frame(t)

\* the call of t has ended, by return or by exception
Ended(t) == pc[t] \in {"done", "raised"}

\* C1: a call with use_cache = True whose assembled url is a key of the cache
\* when it is made returns the text stored under that url at once: no
\* request, no sleep, no opener built, the headers argument and the caller's
\* dict untouched, the cache untouched, whatever retries, headers, auth and
\* proxy are.
C1_CacheHitShortCircuit ==
    [][\A t \in Threads :
          (CallStep(t) /\ loc'[t].use_cache /\ loc'[t].url \in DOMAIN cache)
          => /\ pc'[t] = "done"
             /\ res'[t].ret = cache[loc'[t].url]
             /\ res'[t].exc = ""
             /\ obs'[t].attempts = 0
             /\ obs'[t].dormido = 0
             /\ loc'[t].opener = ""
             /\ loc'[t].headers # "novo"
             /\ loc'[t].novo = DictVazio
             /\ mapa' = mapa
             /\ cache' = cache]_vars

\* a hit answered although auth, proxy and a headers dict were passed and
\* retries allowed attempts
C1_Witness ==
    \E t \in Threads :
        /\ pc[t] = "done"
        /\ res[t].via = "cache"
        /\ loc[t].use_cache
        /\ loc[t].url \in DOMAIN obs[t].cache0
        /\ res[t].ret = obs[t].cache0[loc[t].url]
        /\ loc[t].retries >= 1
        /\ loc[t].headers = "mapa"
        /\ DOMAIN loc[t].auth # {}
        /\ DOMAIN loc[t].proxy # {}
        /\ obs[t].attempts = 0

\* C2: a call that made at least one attempt and whose every attempt failed
\* with HTTPError or URLError has made exactly retries attempts, has slept
\* 2 seconds retries - 1 times (none after the last attempt), has returned the
\* message built from the last attempt's exception, and has left the cache
\* as it was.
C2_ExhaustedRetries ==
    \A t \in Threads :
        (pc[t] = "done" /\ obs[t].attempts >= 1 /\ obs[t].ultimo.tipo # "ok")
        => /\ obs[t].attempts = loc[t].retries
           /\ obs[t].dormido = 2 * (loc[t].retries - 1)
           /\ res[t].via = "erro"
           /\ EndsWith(res[t].ret, obs[t].ultimo.reason)
           /\ obs[t].ultimo.reason # <<>>
           /\ cache = obs[t].cache0

\* two attempts failed, one sleep between them, the second's message returned
C2_Witness ==
    \E t \in Threads :
        /\ pc[t] = "done"
        /\ res[t].via = "erro"
        /\ loc[t].retries = 2
        /\ obs[t].attempts = 2
        /\ obs[t].dormido = 2
        /\ obs[t].ultimo.tipo = "HTTPError"

\* C3: when the last attempt of a call that returned failed with HTTPError
\* the returned text is "Erro HTTP: <code> - <reason>", and when it failed
\* with a URLError that is not an HTTPError the text is "Erro: <reason>".
C3_ErrorMessageShape ==
    \A t \in Threads :
        (pc[t] = "done" /\ obs[t].attempts >= 1)
        => /\ obs[t].ultimo.tipo = "HTTPError"
              => res[t].ret = <<"E", "r", "r", "o", " ", "H", "T", "T", "P", ":", " ">> \o IntToStr(obs[t].ultimo.code)
                              \o <<" ", "-", " ">> \o obs[t].ultimo.reason
           /\ obs[t].ultimo.tipo = "URLError"
              => res[t].ret = <<"E", "r", "r", "o", ":", " ">> \o obs[t].ultimo.reason

\* C4: no call ends with an exception leaving fazer_get.
C4_NoExceptionEscapes == \A t \in Threads : pc[t] # "raised"

\* C5: once an attempt has succeeded (the body arrived and decoded) the call
\* has returned the formatted body, the cache maps the assembled url to the
\* returned text, and the successful attempt is the call's last step: every
\* sleep of the call came before it.
C5_SuccessStoresAndReturns ==
    \A t \in Threads :
        (obs[t].ultimo.tipo = "ok" /\ pc[t] # "raised")
        => /\ pc[t] = "done"
           /\ res[t].via = "ok"
           /\ res[t].ret = _formatar_resposta(Utf8Decode(obs[t].ultimo.corpo))
           /\ loc[t].url \in DOMAIN cache
           /\ cache[loc[t].url] = res[t].ret
           /\ obs[t].dormido = 2 * (obs[t].attempts - 1)
           /\ obs[t].attempts = loc[t].tentativa + 1

\* a JSON body fetched on the second attempt, stored in its formatted form
C5_Witness ==
    \E t \in Threads :
        /\ pc[t] = "done"
        /\ res[t].via = "ok"
        /\ obs[t].attempts = 2
        /\ obs[t].ultimo.corpo # res[t].ret
        /\ loc[t].url \notin DOMAIN obs[t].cache0
        /\ cache[loc[t].url] = res[t].ret

\* C6: a call with use_cache = False that has ended leaves the cache as it
\* was when the call began.
C6_NoCacheFlagLeavesCache ==
    \A t \in Threads :
        (Ended(t) /\ ~loc[t].use_cache) => cache = obs[t].cache0

\* C7 as stated: a call for a url that an earlier call with use_cache = True
\* stored returns the cached text without a request, whatever its own flag.
C7_HitRegardlessOfFlag ==
    [][\A t \in Threads :
          (CallStep(t) /\ loc'[t].url \in cacheadas)
          => /\ pc'[t] = "done"
             /\ res'[t].ret = cache[loc'[t].url]
             /\ obs'[t].attempts = 0]_vars

\* C7 amended: a call for a url that an earlier call with use_cache = True
\* stored returns, if its own use_cache is True, the text the cache holds
\* under that url without a request; if its own use_cache is False it is not
\* answered from the cache and goes on to the retry loop.
C7_HitOnlyWithFlag ==
    [][\A t \in Threads :
          (CallStep(t) /\ loc'[t].url \in cacheadas)
          => IF loc'[t].use_cache
             THEN /\ pc'[t] = "done"
                  /\ res'[t].ret = cache[loc'[t].url]
                  /\ obs'[t].attempts = 0
             ELSE /\ pc'[t] = "loop"
                  /\ res'[t].ret = <<>>
                  /\ res'[t].via = ""]_vars

\* a call with use_cache = False for a url stored by a use_cache = True call
\* has made a request
C7_Witness ==
    \E t \in Threads :
        /\ pc[t] = "done"
        /\ ~loc[t].use_cache
        /\ loc[t].url \in cacheadas
        /\ loc[t].url \in DOMAIN obs[t].cache0
        /\ obs[t].attempts >= 1

\* the texts the failure paths return
MsgsDeErro == {erro_msg(e) : e \in {x \in Excecoes : Capturada(x)}} \cup {MsgMaximo}

\* C8: every step that adds or replaces a cache entry is a successful attempt
\* for that entry's url and stores that attempt's formatted body; no text of
\* the failure paths is in the cache; a call that returned an error text has
\* left the cache as it was when it began.
C8_CacheOnlySuccess ==
    [][/\ \A u \in DOMAIN cache' :
            (u \notin DOMAIN cache \/ cache'[u] # cache[u])
            => \E t \in Threads :
                /\ pc[t] = "loop"
                /\ pc'[t] = "done"
                /\ loc[t].url = u
                /\ obs'[t].attempts = obs[t].attempts + 1
                /\ obs'[t].ultimo.tipo = "ok"
                /\ cache'[u] = _formatar_resposta(Utf8Decode(obs'[t].ultimo.corpo))
       /\ \A u \in DOMAIN cache' : cache'[u] \notin MsgsDeErro
       /\ \A t \in Threads :
            (pc'[t] = "done" /\ res'[t].via \in {"erro", "fallback"})
            => cache' = obs'[t].cache0]_vars

\* a call returned an error text for a url while the cache holds entries
C8_Witness ==
    \E t \in Threads :
        /\ pc[t] = "done"
        /\ res[t].via = "erro"
        /\ res[t].ret \in MsgsDeErro
        /\ DOMAIN cache # {}
        /\ loc[t].url \notin DOMAIN cache

\* C9: a key of the cache stays a key, and its value is never replaced by a
\* different one.
C9_CacheNeverChanges ==
    [][\A u \in DOMAIN cache : u \in DOMAIN cache' /\ cache'[u] = cache[u]]_vars

\* C10 as stated: the return after the loop is never taken.
C10_FallbackDead == \A t \in Threads : res[t].via # "fallback"

\* C10 amended: with retries >= 1 the return after the loop is never taken:
\* a call that missed the cache and returned did so from inside the loop, in
\* iteration retries at the latest; the return after the loop is taken
\* exactly by the calls with retries <= 0 that miss the cache, which make no
\* attempt.
C10_FallbackOnlyWithoutRetries ==
    \A t \in Threads :
        /\ (pc[t] = "done" /\ loc[t].retries >= 1)
           => /\ res[t].via \in {"cache", "ok", "erro"}
              /\ res[t].ret # MsgMaximo
              /\ res[t].via # "cache"
                 => (obs[t].attempts >= 1 /\ obs[t].attempts <= loc[t].retries)
        /\ (pc[t] = "done" /\ loc[t].retries <= 0 /\ res[t].via # "cache")
           => (res[t].via = "fallback" /\ res[t].ret = MsgMaximo /\ obs[t].attempts = 0)

\* a call with retries >= 1 returned from the loop's last iteration
C10_Witness ==
    \E t \in Threads :
        /\ pc[t] = "done"
        /\ loc[t].retries >= 1
        /\ res[t].via = "erro"
        /\ loc[t].tentativa = loc[t].retries - 1

(***************************************************************************)
(* Authorization headers (C11): calls that differ only in headers and      *)
(* auth, auth ranging over every dict with keys among token, username,     *)
(* password and values among AuthTextos.                                   *)
(***************************************************************************)
AuthTextos == {<<"u">>, <<"p", "é">>, <<>>}

AuthDicts == UNION {[D -> AuthTextos] : D \in SUBSET {"token", "username", "password"}}

ExtrasAuth ==
    {[headers |-> h, auth |-> a, proxy |-> DictVazio] : h \in {"None", "mapa"}, a \in AuthDicts}

CallAuth(t) ==
    CallCom(t, {[url |-> <<"h">>, params |-> <<>>]}, ExtrasAuth, {0}, {FALSE})

NextAuth ==
    \/ CallAuth(Principal)
    \/ SaidaLoop(Principal)

SpecAuth == Init /\ [][NextAuth]_vars

\* base64 of "<username>:<password>" in UTF-8, as Python's base64.b64encode
\* gives it for the texts of AuthTextos
Base64Conhecido(u, p) ==
    LET c == <<u, p>>
    IN  CASE c = <<<<"u">>, <<"u">>>> -> <<"d", "T", "p", "1">> []
              c = <<<<"u">>, <<"p", "é">>>> -> <<"d", "T", "p", "w", "w", "6", "k", "=">> []
              c = <<<<"u">>, <<>>>> -> <<"d", "T", "o", "=">> []
              c = <<<<"p", "é">>, <<"u">>>> -> <<"c", "M", "O", "p", "O", "n", "U", "=">> []
              c = <<<<"p", "é">>, <<"p", "é">>>> -> <<"c", "M", "O", "p", "O", "n", "D", "D", "q", "Q", "=", "=">> []
              c = <<<<"p", "é">>, <<>>>> -> <<"c", "M", "O", "p", "O", "g", "=", "=">> []
              c = <<<<>>, <<"u">>>> -> <<"O", "n", "U", "=">> []
              c = <<<<>>, <<"p", "é">>>> -> <<"O", "n", "D", "D", "q", "Q", "=", "=">> []
              c = <<<<>>, <<>>>> -> <<"O", "g", "=", "=">>

\* the header the claim gives for auth: a dict with at most the one key
HeaderEsperado(auth) ==
    IF "token" \in DOMAIN auth
    THEN [k \in {"Authorization"} |-> <<"B", "e", "a", "r", "e", "r", " ">> \o auth["token"]]
    ELSE IF {"username", "password"} \subseteq DOMAIN auth
    THEN [k \in {"Authorization"} |->
             <<"B", "a", "s", "i", "c", " ">> \o Base64Conhecido(auth["username"], auth["password"])]
    ELSE [k \in {} |-> <<>>]

\* C11: a call that misses the cache builds its headers from the caller's
\* headers (or none) and at most one entry, keyed Authorization: "Bearer
\* <token>" when auth has a token, whatever else it has; otherwise "Basic
\* <base64(username:password)>" when auth has both username and password;
\* otherwise no entry, and the headers stay as the caller gave them.
C11_AuthorizationHeader ==
    [][\A t \in Threads :
          (CallStep(t) /\ pc'[t] = "loop")
          => LET esp == HeaderEsperado(loc'[t].auth)
             IN  /\ DOMAIN esp \subseteq {"Authorization"}
                 /\ loc'[t].headers = "novo" => (loc'[t].novo = esp /\ mapa' = mapa)
                 /\ loc'[t].headers = "mapa"
                    => /\ DOMAIN mapa' = DOMAIN mapa \cup DOMAIN esp
                       /\ \A k \in DOMAIN mapa' :
                            mapa'[k] = IF k \in DOMAIN esp THEN esp[k] ELSE mapa[k]
                 /\ DOMAIN esp = {} => HeadersDe(t)' \in {mapa, DictVazio}]_vars

\* a call whose auth held a token beside a username and a password went out
\* with the Bearer form
C11_Witness ==
    \E t \in Threads :
        /\ pc[t] # "idle"
        /\ DOMAIN loc[t].auth = {"token", "username", "password"}
        /\ loc[t].headers = "novo"
        /\ loc[t].novo = Dict1("Authorization", <<"B", "e", "a", "r", "e", "r", " ">> \o loc[t].auth["token"])

(***************************************************************************)
(* Query parameters and cache keys (C12, C19): calls that differ in url,   *)
(* params and use_cache; params is the dict's items in insertion order.    *)
(***************************************************************************)
UrlParamsUrl ==
    {[url |-> <<"h">>, params |-> <<>>],
     [url |-> <<"h">>, params |-> <<<<<<"a">>, <<"1">>>>, <<<<"b">>, <<"2">>>>>>],
     [url |-> <<"h">>, params |-> <<<<<<"b">>, <<"2">>>>, <<<<"a">>, <<"1">>>>>>],
     [url |-> <<"h", "?", "a", "=", "1">>, params |-> <<<<<<"b">>, <<"2">>>>>>],
     [url |-> <<"h", "?", "a", "=", "1", "&", "b", "=", "2">>, params |-> <<>>],
     [url |-> <<"h">>, params |-> <<<<<<"q">>, <<"é", " ", "&">>>>>>]}

CorposUrl == {<<"o", "k">>}

CallUrl(t) ==
    CallCom(t, UrlParamsUrl, {[headers |-> "None", auth |-> DictVazio, proxy |-> DictVazio]},
            {1}, BOOLEAN)

TentativaSucessoUrl(t) == TentativaSucessoCom(t, CorposUrl)

NextUrl ==
    \/ CallUrl(Principal)
    \/ TentativaSucessoUrl(Principal)
    \/ TentativaErro(Principal)
    \/ TentativaExcecao(Principal)

SpecUrl == Init /\ [][NextUrl]_vars

\* urllib.parse.urlencode(params) as Python gives it for the params of
\* UrlParamsUrl
QueryConhecida(params) ==
    CASE params = <<<<<<"a">>, <<"1">>>>, <<<<"b">>, <<"2">>>>>> -> <<"a", "=", "1", "&", "b", "=", "2">> []
          params = <<<<<<"b">>, <<"2">>>>, <<<<"a">>, <<"1">>>>>> -> <<"b", "=", "2", "&", "a", "=", "1">> []
          params = <<<<<<"b">>, <<"2">>>>>> -> <<"b", "=", "2">> []
          params = <<<<<<"q">>, <<"é", " ", "&">>>>>> -> <<"q", "=", "%", "C", "3", "%", "A", "9", "+", "%", "2", "6">>

\* the assembled URL the claim gives for a call's (url, params)
UrlEsperada(c) ==
    IF c.params = <<>> THEN c.url
    ELSE c.url \o (IF \E i \in 1..Len(c.url) : c.url[i] = "?" THEN <<"&">> ELSE <<"?">>)
               \o QueryConhecida(c.params)

\* C12: the URL of a call is url + "?" + urlencode(params), or url + "&" +
\* urlencode(params) when url already holds a "?", and url itself when params
\* is empty or absent; that URL is the one looked up in the cache on entry,
\* the one requested, and the key a successful attempt stores under.
C12_QueryAssembly ==
    [][\A t \in Threads :
          LET u == UrlEsperada(obs'[t].chamada)
          IN  /\ CallStep(t)
                 => /\ loc'[t].url = u
                    /\ (res'[t].via = "cache") = (loc'[t].use_cache /\ u \in DOMAIN cache)
                    /\ res'[t].via = "cache" => res'[t].ret = cache[u]
              /\ (pc[t] = "loop" /\ pc'[t] = "done" /\ res'[t].via = "ok")
                 => /\ loc[t].url = u
                    /\ DOMAIN cache' = DOMAIN cache \cup {u}
                    /\ cache'[u] = res'[t].ret
                    /\ \A k \in DOMAIN cache \ {u} : cache'[k] = cache[k]]_vars

\* a call whose url already held a "?" stored its response under url + "&" +
\* the encoded params
C12_Witness ==
    \E t \in Threads :
        /\ pc[t] = "done" /\ res[t].via = "ok"
        /\ obs[t].chamada = [url |-> <<"h", "?", "a", "=", "1">>, params |-> << <<<<"b">>, <<"2">>>> >>]
        /\ loc[t].url = <<"h", "?", "a", "=", "1", "&", "b", "=", "2">>
        /\ loc[t].url \in DOMAIN cache

\* c and d give the same url and the same (name, value) pairs in another order
Reordenada(c, d) ==
    /\ c.url = d.url
    /\ c.params # d.params
    /\ Len(c.params) = Len(d.params)
    /\ {c.params[i] : i \in 1..Len(c.params)} = {d.params[i] : i \in 1..Len(d.params)}

\* C19: the cache is keyed by the assembled URL.  Calls that give the same
\* parameters in another order have different URLs: with only the other
\* order's URL cached, a call with use_cache = True misses, makes its own
\* attempt, and its success adds a second entry.  Calls whose assembled URLs
\* are the same text share the entry: the later one with use_cache = True is
\* answered from it and adds none.
C19_CacheKeyIsAssembledUrl ==
    [][\A t \in Threads :
          LET c == obs'[t].chamada
              u == UrlEsperada(c)
          IN  /\ \A d \in UrlParamsUrl :
                    Reordenada(c, d)
                    => /\ UrlEsperada(d) # u
                       /\ (CallStep(t) /\ loc'[t].use_cache
                           /\ UrlEsperada(d) \in DOMAIN cache /\ u \notin DOMAIN cache)
                          => (pc'[t] = "loop" /\ cache' = cache)
                       /\ (pc[t] = "loop" /\ res'[t].via = "ok" /\ pc'[t] = "done"
                           /\ UrlEsperada(d) \in DOMAIN cache /\ u \notin DOMAIN cache)
                          => /\ {u, UrlEsperada(d)} \subseteq DOMAIN cache'
                             /\ Cardinality(DOMAIN cache') = Cardinality(DOMAIN cache) + 1
              /\ \A d \in UrlParamsUrl :
                    (CallStep(t) /\ loc'[t].use_cache /\ UrlEsperada(d) = u
                     /\ u \in DOMAIN cache)
                    => /\ pc'[t] = "done" /\ res'[t].via = "cache"
                       /\ res'[t].ret = cache[UrlEsperada(d)]
                       /\ cache' = cache]_vars

\* both orders are cached as two entries, and a call that wrote the first
\* order's URL another way was answered from that entry
C19_Witness ==
    \E t \in Threads :
        /\ pc[t] = "done" /\ res[t].via = "cache"
        /\ obs[t].chamada = [url |-> <<"h", "?", "a", "=", "1">>, params |-> << <<<<"b">>, <<"2">>>> >>]
        /\ {<<"h", "?", "a", "=", "1", "&", "b", "=", "2">>,
            <<"h", "?", "b", "=", "2", "&", "a", "=", "1">>} \subseteq DOMAIN cache

(***************************************************************************)
(* Response formatting (C13): calls for one url whose response body is     *)
(* any byte string of up to MaxCorpo bytes of AlfabetoCorpo, or one of the *)
(* longer documents of Documentos.                                         *)
(***************************************************************************)
MaxCorpo == 3

AlfabetoCorpo == {"[", "]", "{", "}", "\"", ":", ",", "1", "0", " ", "a", "xC3", "xA9"}

Documentos ==
    {<<"{", "\"", "a", "\"", ":", "1", "}">>,
     <<"{", "\"", "a", "\"", ":", " ", "[", "1", ",", " ", "{", "\"", "b", "\"", ":", " ", "\"", "xC3", "xA9", "\"", "}", "]", ",", " ", "\"", "a", "\"", ":", " ", "n", "u", "l", "l", "}">>,
     <<"[", "t", "r", "u", "e", ",", "f", "a", "l", "s", "e", " ", ",", " ", "[", "]", "]">>,
     <<" ", "{", "\"", "k", "\"", ":", "{", "}", "}", " ">>,
     <<"n", "o", "t", " ", "j", "s", "o", "n">>,
     <<"[", "\"", "xC3", "xA9", "\"", "]">>,
     <<"[", "1", ",", "]">>,
     <<"{", "\"", "a", "\"", ":", "1", "}", " ", "x">>,
     <<"0", "1">>,
     <<"{", "\n", " ", " ", " ", " ", "\"", "a", "\"", ":", " ", "1", "\n", "}">>}

CorposFormat == Documentos \cup UNION {[1..n -> AlfabetoCorpo] : n \in 0..MaxCorpo}

CallFormat(t) ==
    CallCom(t, {[url |-> <<"h">>, params |-> <<>>]},
            {[headers |-> "None", auth |-> DictVazio, proxy |-> DictVazio]}, {1}, {TRUE})

TentativaSucessoFormat(t) == TentativaSucessoCom(t, CorposFormat)

NextFormat ==
    \/ CallFormat(Principal)
    \/ TentativaSucessoFormat(Principal)

SpecFormat == Init /\ [][NextFormat]_vars

\* every line break of s is followed by a multiple of four spaces and then
\* something that is not a space
Indentado4(s) ==
    \A i \in 1..Len(s) :
        s[i] = "\n"
        => \E n \in 0..(Len(s) - i) :
              /\ n % 4 = 0
              /\ \A j \in 1..n : s[i + j] = " "
              /\ i + n < Len(s) /\ s[i + n + 1] # " "

\* C13: the text a successful attempt returns and caches is, when the decoded
\* body parses as JSON, a text that parses to the same value, is indented by
\* four spaces a level, holds its non-ASCII characters as they are, and is
\* left as it is by _formatar_resposta; when the body does not parse it is
\* the decoded body itself.  {"a":1} comes out as {, line break, four spaces,
\* "a": 1, line break, }, and ["é"] keeps its é.  A text returned from the
\* cache is left as it is by _formatar_resposta as well.
C13_FormatResponse ==
    \A t \in Threads :
        /\ (pc[t] = "done" /\ res[t].via = "ok")
           => LET x == Utf8Decode(obs[t].ultimo.corpo)
                  y == res[t].ret
              IN  /\ _formatar_resposta(y) = y
                  /\ ~JsonLoads(x).ok => y = x
                  /\ JsonLoads(x).ok
                     => /\ JsonLoads(y).ok /\ JsonLoads(y).v = JsonLoads(x).v
                        /\ Indentado4(y)
                        /\ ~Contem(y, "\\")
                  /\ x = <<"{", "\"", "a", "\"", ":", "1", "}">>
                     => y = <<"{", "\n", " ", " ", " ", " ", "\"", "a", "\"", ":", " ", "1", "\n", "}">>
                  /\ x = <<"[", "\"", "é", "\"", "]">>
                     => y = <<"[", "\n", " ", " ", " ", " ", "\"", "é", "\"", "\n", "]">>
                  /\ x = <<"n", "o", "t", " ", "j", "s", "o", "n">> => y = x
        /\ (pc[t] = "done" /\ res[t].via = "cache")
           => _formatar_resposta(res[t].ret) = res[t].ret

\* a call was answered from the cache with the four-space form of a JSON
\* array that had arrived on one line
C13_Witness ==
    \E t \in Threads :
        /\ pc[t] = "done" /\ res[t].via = "cache"
        /\ res[t].ret = <<"[", "\n", " ", " ", " ", " ", "1", "\n", "]">>

(***************************************************************************)
(* The retry loop (C14, C15, C16).                                         *)
(***************************************************************************)
\* the waits of the call so far, each of Espera seconds
Waits(t) == obs[t].dormido \div Espera

\* C14: in a call with retries >= 1 the attempts made so far never exceed
\* retries.  A call that succeeds at its k-th attempt has made k attempts and
\* k - 1 waits.  A wait is entered only after a failed attempt that was not
\* the last allowed one, and once it is over the next attempt is still to be
\* made; the call ends right after a successful attempt or the final failed
\* one, with no further wait.
C14_AttemptsAndWaits ==
    \A t \in Threads :
        (pc[t] # "idle" /\ loc[t].retries >= 1)
        => LET k == obs[t].attempts
           IN  /\ k <= loc[t].retries
               /\ obs[t].dormido = Espera * Waits(t)
               /\ pc[t] = "loop"
                  => (k = loc[t].tentativa /\ Waits(t) = k /\ k < loc[t].retries)
               /\ pc[t] = "sleep"
                  => /\ k >= 1 /\ k < loc[t].retries
                     /\ Waits(t) = k - 1
                     /\ obs[t].ultimo.tipo \notin {"", "ok"}
               /\ (pc[t] = "done" /\ res[t].via = "ok")
                  => (k >= 1 /\ Waits(t) = k - 1 /\ obs[t].ultimo.tipo = "ok")
               /\ (pc[t] = "done" /\ res[t].via = "erro")
                  => (k = loc[t].retries /\ Waits(t) = k - 1)
               /\ pc[t] = "raised" => (k >= 1 /\ Waits(t) = k - 1)
               /\ (pc[t] = "done" /\ res[t].via = "cache") => (k = 0 /\ Waits(t) = 0)
               /\ pc[t] = "done" => res[t].via # "fallback"

\* the second attempt of a call succeeded after one wait
C14_Witness ==
    \E t \in Threads :
        /\ pc[t] = "done" /\ res[t].via = "ok"
        /\ obs[t].attempts = 2
        /\ obs[t].dormido = 2

\* C15: a call with retries <= 0 whose url is cached and use_cache = True
\* returns the cached text; any other call with retries <= 0 makes no attempt
\* and no wait, leaves the cache as it was and returns "Erro: Número máximo de
\* tentativas atingido.".
C15_NonPositiveRetries ==
    \A t \in Threads :
        (pc[t] # "idle" /\ loc[t].retries <= 0)
        => IF loc[t].use_cache /\ loc[t].url \in DOMAIN obs[t].cache0
           THEN /\ pc[t] = "done" /\ res[t].via = "cache"
                /\ res[t].ret = obs[t].cache0[loc[t].url]
                /\ obs[t].attempts = 0 /\ obs[t].dormido = 0
           ELSE /\ pc[t] \in {"loop", "done"}
                /\ obs[t].attempts = 0 /\ obs[t].dormido = 0
                /\ cache = obs[t].cache0
                /\ pc[t] = "done"
                   => res[t].ret =
                        <<"E", "r", "r", "o", ":", " ", "N", "ú", "m", "e", "r", "o", " ",
                          "m", "á", "x", "i", "m", "o", " ", "d", "e", " ",
                          "t", "e", "n", "t", "a", "t", "i", "v", "a", "s", " ",
                          "a", "t", "i", "n", "g", "i", "d", "o", ".">>

\* a call with use_cache = False and retries < 0 for a cached url got the
\* literal, the cache still holding the url
C15_Witness ==
    \E t \in Threads :
        /\ pc[t] = "done"
        /\ loc[t].retries < 0
        /\ ~loc[t].use_cache
        /\ loc[t].url \in DOMAIN cache
        /\ res[t].via = "fallback"

(***************************************************************************)
(* Termination (C16): the same calls for one url, under the assumption     *)
(* that a request that has been sent ends (with a response or an           *)
(* exception), that time.sleep ends, and that the interpreter goes on      *)
(* running the caller.  Nothing obliges a caller to call again.            *)
(***************************************************************************)
CallJusto(t) ==
    CallCom(t, {[url |-> <<"h">>, params |-> <<>>]}, ExtrasArgs, RetriesArgs, BOOLEAN)

\* lines 58-74: one attempt, whatever its outcome
Tentativa(t) ==
    \/ TentativaSucesso(t)
    \/ TentativaErro(t)
    \/ TentativaExcecao(t)

NextJusto ==
    \/ CallJusto(Principal)
    \/ Tentativa(Principal)
    \/ Sleep(Principal)
    \/ SaidaLoop(Principal)

SpecJusto ==
    /\ Init
    /\ [][NextJusto]_vars
    /\ WF_vars(Tentativa(Principal))
    /\ WF_vars(Sleep(Principal))
    /\ WF_vars(SaidaLoop(Principal))

\* C16: every call that entered the retry loop eventually returns.
C16_EveryCallReturns ==
    \A t \in Threads : (pc[t] \in {"loop", "sleep"}) ~> (pc[t] = "done")

\* every call that entered the retry loop eventually ends, by return or by
\* an exception that leaves fazer_get
C16_EveryCallEnds ==
    \A t \in Threads : (pc[t] \in {"loop", "sleep"}) ~> Ended(t)

(***************************************************************************)
(* The caller's headers dict (C20): calls for one url that pass no headers *)
(* or the caller's dict, with no auth, an auth that gives no header, a     *)
(* token, or a username and a password.                                    *)
(***************************************************************************)
ExtrasHeaders ==
    {[headers |-> "None", auth |-> DictVazio, proxy |-> DictVazio],
     [headers |-> "None", auth |-> [token |-> <<"u">>], proxy |-> DictVazio],
     [headers |-> "mapa", auth |-> DictVazio, proxy |-> DictVazio],
     [headers |-> "mapa", auth |-> [username |-> <<"u">>], proxy |-> DictVazio],
     [headers |-> "mapa", auth |-> [token |-> <<"u">>], proxy |-> DictVazio],
     [headers |-> "mapa", auth |-> [username |-> <<"u">>, password |-> <<"p", "é">>],
      proxy |-> DictVazio]}

CallHeaders(t) ==
    CallCom(t, {[url |-> <<"h">>, params |-> <<>>]}, ExtrasHeaders, {2}, BOOLEAN)

NextHeaders ==
    \/ CallHeaders(Principal)
    \/ TentativaSucessoUrl(Principal)
    \/ TentativaErro(Principal)
    \/ Sleep(Principal)
    \/ TentativaExcecao(Principal)

SpecHeaders == Init /\ [][NextHeaders]_vars

\* the step is an attempt of caller t
AttemptStep(t) == obs'[t].attempts = obs[t].attempts + 1

\* C20: a call answered from the cache, a call without auth and a call whose
\* auth gives no header leave the dict the caller passed as headers as it
\* was.  A call that misses the cache with an auth that gives an
\* Authorization value writes it into that very dict, over the caller's own
\* Authorization; every attempt of the call sends the dict with it, and the
\* dict keeps it after the call and through later calls that pass the dict
\* without auth, whose attempts send it too.
C20_CallerHeadersMapping ==
    [][/\ (\A t \in Threads : ~CallStep(t)) => mapa' = mapa
       /\ \A t \in Threads :
          LET esp == HeaderEsperado(loc'[t].auth)
          IN  /\ CallStep(t)
                 => IF loc'[t].headers = "mapa" /\ res'[t].via # "cache" /\ DOMAIN esp # {}
                    THEN /\ DOMAIN mapa' = DOMAIN mapa \cup {"Authorization"}
                         /\ mapa'["Authorization"] = esp["Authorization"]
                         /\ \A k \in DOMAIN mapa \ {"Authorization"} : mapa'[k] = mapa[k]
                    ELSE mapa' = mapa
              /\ (AttemptStep(t) /\ loc[t].headers = "mapa")
                 => /\ obs'[t].enviados = mapa
                    /\ DOMAIN esp # {}
                       => obs'[t].enviados["Authorization"] = esp["Authorization"]]_vars

\* the caller's Authorization was x; a call with a token has written its
\* Bearer value into the dict, and a later call that passed the dict without
\* auth has sent it on its second attempt
C20_Witness ==
    \E t \in Threads :
        /\ loc[t].headers = "mapa"
        /\ loc[t].auth = DictVazio
        /\ obs[t].attempts = 2
        /\ obs[t].enviados = Dict1("Authorization", <<"B", "e", "a", "r", "e", "r", " ", "u">>)
        /\ mapa = obs[t].enviados

(***************************************************************************)
(* Two concurrent callers (C17): two threads call fazer_get for the same   *)
(* url with use_cache = True; between the lookup of line 35 and the store  *)
(* of line 64 a thread is in the request, and the other thread may run.    *)
(***************************************************************************)
CorposConc == {<<"a">>, <<"b">>, <<"c">>}

CallConc(t) ==
    CallCom(t, {[url |-> <<"h">>, params |-> <<>>]},
            {[headers |-> "None", auth |-> DictVazio, proxy |-> DictVazio]}, {1, 2}, {TRUE})

TentativaSucessoConc(t) == TentativaSucessoCom(t, CorposConc)

NextConc ==
    \/ \E t \in Threads : CallConc(t)
    \/ \E t \in Threads : TentativaSucessoConc(t)
    \/ \E t \in Threads : TentativaErro(t)
    \/ \E t \in Threads : Sleep(t)

SpecConc == Init /\ [][NextConc]_vars

\* C17: nothing keeps a second caller from missing the cache while a first
\* one is still in its request for the same url, and each successful attempt
\* stores its own text over whatever the cache holds: after the later store
\* the cache holds the later writer's text, and a caller that had returned a
\* different text for that url no longer agrees with the cache.
C17_LastWriterWins ==
    [][\A t \in Threads :
          /\ (CallStep(t) /\ loc'[t].url \notin DOMAIN cache) => pc'[t] = "loop"
          /\ (pc[t] = "loop" /\ pc'[t] = "done" /\ res'[t].via = "ok")
             => /\ cache'[loc[t].url] = res'[t].ret
                /\ \A o \in Threads \ {t} :
                      (pc[o] = "done" /\ res[o].via = "ok" /\ loc[o].url = loc[t].url
                       /\ res[o].ret # res'[t].ret)
                      => cache'[loc[o].url] # res'[o].ret]_vars

\* both callers missed the cache, each made its attempt, the responses
\* differed: the cache holds the second caller's text and the first caller
\* returned another
C17_Witness ==
    /\ \A t \in Threads :
          /\ pc[t] = "done" /\ res[t].via = "ok"
          /\ loc[t].use_cache
          /\ loc[t].url \notin DOMAIN obs[t].cache0
          /\ obs[t].attempts = 1
    /\ loc[1].url = loc[2].url
    /\ res[1].ret # res[2].ret
    /\ cache[loc[1].url] = res[2].ret

(***************************************************************************)
(* Two callers taking turns (C18): a call starts only when no other call   *)
(* is under way, so the calls form a sequence; the two callers' records    *)
(* keep what two calls of that sequence returned.                          *)
(***************************************************************************)
CallDois(t) ==
    /\ \A o \in Threads \ {t} : pc[o] \in Rest
    /\ CallCom(t, {[url |-> <<"h">>, params |-> <<>>]},
               {[headers |-> "None", auth |-> DictVazio, proxy |-> DictVazio]}, {1}, BOOLEAN)

NextDois ==
    \/ \E t \in Threads : CallDois(t)
    \/ \E t \in Threads : TentativaSucesso(t)
    \/ \E t \in Threads : TentativaErro(t)
    \/ \E t \in Threads : TentativaExcecao(t)

SpecDois == Init /\ [][NextDois]_vars

\* C18: two calls of a sequence of calls that passed use_cache = True for the
\* same assembled url and returned a response, fetched or cached, returned
\* the same text.
C18_RepeatableReads ==
    \A t, o \in Threads :
        (/\ pc[t] = "done" /\ pc[o] = "done"
         /\ loc[t].use_cache /\ loc[o].use_cache
         /\ loc[t].url = loc[o].url
         /\ res[t].via \in {"ok", "cache"} /\ res[o].via \in {"ok", "cache"})
        => res[t].ret = res[o].ret

====
